---- MODULE Spec2Model ----
(***************************************************************************)
(* Model of the next-app-generator CLI (Mayank1170/Next-app-generator).    *)
(*                                                                         *)
(* Two near-duplicate programs are bundled in the repository:              *)
(*   variant "A" : src/index.js          (--api-key flag, existsSync       *)
(*                 check, fence strip on generated components)             *)
(*   variant "B" : src/unnamed/part_000  (key from the environment, no     *)
(*                 existsSync check, type-definition step)                 *)
(* One run of the CLI action is modelled as a state machine.  Every        *)
(* awaited external call (subprocess, completion request, ensureDir,       *)
(* writeFile) is split into the step that issues it and the step in which  *)
(* it settles; the synchronous code between two awaits is one step.        *)
(*                                                                         *)
(* Text is a sequence of atoms.  An atom is a single character (backtick,  *)
(* newline, blank, a letter) or an opaque chunk of text that contains no    *)
(* backtick and no leading or trailing white space (a JSON document, a     *)
(* piece of generated code).  Paths are sequences of path segments below   *)
(* the working directory.                                                  *)
(***************************************************************************)
EXTENDS Integers, Sequences, FiniteSets, TLC

VARIABLES
    variant,        \* "A" (src/index.js) or "B" (src/unnamed/part_000)
    pc,             \* position of the action callback
    dirs,           \* file system: the directories that exist
    files,          \* file system: path -> content of the files that exist
    projectPlan,    \* the parsed plan (NoPlan before the planner returned)
    dirIdx,         \* index into directories of the ensureDir awaited
    compIdx,        \* index into projectPlan.components being synthesized
    content,        \* planner: completion.choices[0].message.content
    cleanContent,   \* planner: content after the fencing strip and trim
    completion,     \* synthesizer: raw text of the last component completion
    stderr,         \* what console.error printed
    reported,       \* error.message handed to spinner.fail
    exitCode,       \* -1 while running, then the process exit status
    inflight,       \* external calls issued and not yet settled
    trace,          \* history of external calls: issued / settled
    fsAtStart,      \* history: the file system when the action started
    fsAfterScaffold \* history: the file system when execSync returned

vars == <<variant, pc, dirs, files, projectPlan, dirIdx, compIdx, content,
          cleanContent, completion, stderr, reported, exitCode, inflight,
          trace, fsAtStart, fsAfterScaffold>>

(***************************************************************************)
(* Bounds of the model.                                                    *)
(***************************************************************************)
\* longest components array the stubbed planner returns
MaxComponents == 2

\* longest response body handed to the fencing strip on its own
MaxBodyLen == 2

(***************************************************************************)
(* Text: the fencing strip.                                                *)
(***************************************************************************)
\* the backtick character (SANY does not lex one inside a string literal)
BackTick == "<backtick>"

\* the three-backtick fence marker
Fence3 == <<BackTick, BackTick, BackTick>>

WhiteSpace == {" ", "\n"}

\* does the literal lit occur in s at position i
MatchesAt(s, i, lit) ==
    /\ i + Len(lit) - 1 <= Len(s)
    /\ \A k \in 1..Len(lit) : s[i + k - 1] = lit[k]

\* length matched at i by  lit  followed by an optional "\n"  (0: no match)
OptNewline(s, i, lit) ==
    IF ~MatchesAt(s, i, lit) THEN 0
    ELSE IF i + Len(lit) <= Len(s) /\ s[i + Len(lit)] = "\n"
         THEN Len(lit) + 1
         ELSE Len(lit)

\* mutant of PlannerFenceAt: the json alternative of the pattern is missing
PlannerFenceAtBare(s, i) == OptNewline(s, i, Fence3)

\* the planner's pattern (fence+json+optional newline | fence+optional
\* newline) tried at position i: the first alternative that matches wins
PlannerFenceAt(s, i) ==
    IF OptNewline(s, i, Fence3 \o <<"j", "s", "o", "n">>) > 0
    THEN OptNewline(s, i, Fence3 \o <<"j", "s", "o", "n">>)
    ELSE OptNewline(s, i, Fence3)

\* the synthesizer's pattern (fence+ts+optional x+optional newline |
\* fence+optional newline) tried at position i; the optional x is greedy
ComponentFenceAt(s, i) ==
    IF OptNewline(s, i, Fence3 \o <<"t", "s", "x">>) > 0
    THEN OptNewline(s, i, Fence3 \o <<"t", "s", "x">>)
    ELSE IF OptNewline(s, i, Fence3 \o <<"t", "s">>) > 0
    THEN OptNewline(s, i, Fence3 \o <<"t", "s">>)
    ELSE OptNewline(s, i, Fence3)

RECURSIVE ReplacePlannerFence(_, _)
\* global replace of the planner's pattern by the empty text, from i on
ReplacePlannerFence(s, i) ==
    IF i > Len(s) THEN <<>>
    ELSE IF PlannerFenceAt(s, i) > 0
         THEN ReplacePlannerFence(s, i + PlannerFenceAt(s, i))
         ELSE <<s[i]>> \o ReplacePlannerFence(s, i + 1)

RECURSIVE ReplaceComponentFence(_, _)
\* global replace of the synthesizer's pattern by the empty text, from i on
ReplaceComponentFence(s, i) ==
    IF i > Len(s) THEN <<>>
    ELSE IF ComponentFenceAt(s, i) > 0
         THEN ReplaceComponentFence(s, i + ComponentFenceAt(s, i))
         ELSE <<s[i]>> \o ReplaceComponentFence(s, i + 1)

RECURSIVE TrimStart(_)
TrimStart(s) ==
    IF s # <<>> /\ Head(s) \in WhiteSpace THEN TrimStart(Tail(s)) ELSE s

RECURSIVE TrimEnd(_)
TrimEnd(s) ==
    IF s # <<>> /\ s[Len(s)] \in WhiteSpace
    THEN TrimEnd(SubSeq(s, 1, Len(s) - 1))
    ELSE s

\* String.prototype.trim
Trim(s) == TrimEnd(TrimStart(s))

\* the planner's strip: content.replace(pattern, empty).trim()
StripPlanner(s) == Trim(ReplacePlannerFence(s, 1))

\* variant A's strip of generated component code
StripComponentA(s) == Trim(ReplaceComponentFence(s, 1))

\* mutant of componentCodeOf: variant A writes the text as returned too
componentCodeVerbatim(v, s) == s

\* the text written for a component: stripped in A, verbatim in B
componentCodeOf(v, s) == IF v = "A" THEN StripComponentA(s) ELSE s

\* a fenced code block carrying language tag tag (<<>>: no tag) around body
Fenced(tag, body) == Fence3 \o tag \o <<"\n">> \o body \o <<"\n">> \o Fence3

(***************************************************************************)
(* The plan, and the stubbed completion endpoint.                          *)
(***************************************************************************)
RECURSIVE SeqsUpTo(_, _)
\* all sequences over S of length at most n
SeqsUpTo(S, n) ==
    IF n = 0 THEN {<<>>}
    ELSE LET shorter == SeqsUpTo(S, n - 1)
         IN  shorter \cup {Append(s, x) : s \in shorter, x \in S}

\* the key a plain object is indexed with when component.type is missing
Undefined == "undefined"

\* component descriptors the stubbed planner draws from; a name is split at
\* its path separators (the name "ui/Hero" is <<"ui", "Hero">>)
Catalogue ==
    { [name |-> <<"Hero">>,          type |-> "section"],
      [name |-> <<"Pricing">>,       type |-> "feature"],
      [name |-> <<"Nav">>,           type |-> "layout"],
      [name |-> <<"Hero">>,          type |-> "ui"],
      [name |-> <<"ui", "Hero">>,    type |-> Undefined],
      [name |-> <<"Card">>,          type |-> ""],
      [name |-> <<"Card">>,          type |-> "widget"],
      [name |-> <<"Card">>,          type |-> "constructor"] }

\* the parsed JSON objects: a components array (absent in the object {}) and
\* a dataStructures array (absent and empty behave alike, line 126)
PlanSet ==
    { [hasComponents |-> TRUE, components |-> cs, dataStructures |-> ds] :
        cs \in SeqsUpTo(Catalogue, MaxComponents),
        ds \in {<<>>, <<"User">>} }
    \cup { [hasComponents |-> FALSE, components |-> <<>>,
            dataStructures |-> <<>>] }

\* projectPlan before the planner has returned
NoPlan == [hasComponents |-> FALSE, components |-> <<>>,
           dataStructures |-> <<"unset">>]

\* the JSON document of a plan, as one chunk of text
JSONText(p) == ToString(p)

\* the JSON documents of the plans
JSONTexts == {JSONText(p) : p \in PlanSet}

\* JSON.parse accepts exactly the text that is one JSON document
JSONValid(s) == Len(s) = 1 /\ s[1] \in JSONTexts

JSONParse(s) == CHOOSE p \in PlanSet : JSONText(p) = s[1]

\* language tags a model puts on a fence
TagJson == <<"j", "s", "o", "n">>
TagJs == <<"j", "s">>
TagTsx == <<"t", "s", "x">>
TagTypescript == <<"t", "y", "p", "e", "s", "c", "r", "i", "p", "t">>

\* prose instead of JSON
Prose == <<"Sure", " ", "here", " ", "is", " ", "the", " ", "plan">>

\* what the endpoint may answer to the planner's prompt
PlannerResponses ==
    LET docs == {<<JSONText(p)>> : p \in PlanSet}
    IN  docs
        \cup {Fenced(TagJson, <<JSONText(p)>>) :
                p \in {q \in PlanSet : Len(q.components) <= 1}}
        \cup {Fenced(TagJs, <<JSONText(p)>>) :
                p \in {q \in PlanSet : q.components = <<>>}}
        \cup {Prose}

\* what the endpoint may answer to a component prompt
ComponentResponses ==
    { <<"CodeA">>, Fenced(TagTsx, <<"CodeB">>) }

\* what the endpoint answers to the type-definition prompt
TypeResponses == { <<"TypeDefs">> }

(***************************************************************************)
(* Paths.                                                                  *)
(***************************************************************************)
\* <project-name> and path.join(currentDir, projectName), below the cwd
projectName == "demo"
projectPath == <<projectName>>

\* mutant of directories: the hooks entry is missing
directoriesWithoutHooks ==
    << <<"components">>,
       <<"components", "ui">>,
       <<"components", "sections">>,
       <<"components", "layout">>,
       <<"components", "features">>,
       <<"lib">>,
       <<"types">>,
       <<"styles">>,
       <<"public", "images">> >>

directories ==
    << <<"components">>,
       <<"components", "ui">>,
       <<"components", "sections">>,
       <<"components", "layout">>,
       <<"components", "features">>,
       <<"lib">>,
       <<"types">>,
       <<"hooks">>,
       <<"styles">>,
       <<"public", "images">> >>

RECURSIVE Normalize(_, _)
\* path.normalize: drops empty and "." segments, ".." removes the segment
\* before it
Normalize(rest, acc) ==
    IF rest = <<>> THEN acc
    ELSE IF Head(rest) \in {"", "."} THEN Normalize(Tail(rest), acc)
    ELSE IF Head(rest) = ".." /\ acc # <<>>
         THEN Normalize(Tail(rest), SubSeq(acc, 1, Len(acc) - 1))
         ELSE Normalize(Tail(rest), Append(acc, Head(rest)))

\* path.join of segment lists
PathJoin(parts) == Normalize(parts, <<>>)

\* the directory holding path p
Parent(p) == SubSeq(p, 1, Len(p) - 1)

\* p and every directory above it, up to the working directory
Ancestors(p) == {SubSeq(p, 1, k) : k \in 1..Len(p)}

\* own properties of the typeToDir literal
typeToDir ==
    [section |-> "sections", layout |-> "layout",
     feature |-> "features", ui |-> "ui"]

\* properties every object literal inherits from Object.prototype
ObjectPrototype ==
    {"constructor", "toString", "toLocaleString", "valueOf",
     "hasOwnProperty", "isPrototypeOf", "propertyIsEnumerable", "__proto__"}

\* typeToDir[type] || '' : a property read also finds inherited properties,
\* whose values are functions or objects, which are truthy
getComponentDirectory(type) ==
    IF type \in DOMAIN typeToDir
    THEN [isString |-> TRUE, value |-> typeToDir[type]]
    ELSE IF type \in ObjectPrototype
    THEN [isString |-> FALSE, value |-> type]
    ELSE [isString |-> TRUE, value |-> ""]

\* the template literal ${component.name}.tsx, split at the separators
\* inside the name
FileName(name) ==
    SubSeq(name, 1, Len(name) - 1) \o <<name[Len(name)] \o ".tsx">>

\* path.join(projectPath, 'components', componentDir, name + '.tsx')
componentPath(c) ==
    PathJoin(projectPath \o <<"components">>
             \o <<getComponentDirectory(c.type).value>> \o FileName(c.name))

\* path.join(baseDir, 'types', 'index.ts')
typesPath == PathJoin(projectPath \o <<"types", "index.ts">>)

(***************************************************************************)
(* External calls and their history.                                       *)
(***************************************************************************)
Call(op, target, i) == [op |-> op, target |-> target, i |-> i]

ScaffoldCall == Call("execSync", "create-next-app", 0)
PlanRequest == Call("create", "plan", 0)
TypesRequest == Call("create", "types", 0)
TypesWrite == Call("writeFile", "types", 0)
EnsureDirCall(i) == Call("ensureDir", "dir", i)
ComponentRequest(i) == Call("create", "component", i)
ComponentWrite(i) == Call("writeFile", "component", i)

\* a history entry; data is the text a completion request resolved with
EvData(ev, c, data) ==
    [ev |-> ev, op |-> c.op, target |-> c.target, i |-> c.i, data |-> data]

Ev(ev, c) == EvData(ev, c, <<>>)

\* the awaited call c settles with result res ("ok" or "fail") and the code
\* that runs next issues the calls in next before it yields again
SettleData(c, res, data, next) ==
    /\ inflight' = (inflight \ {c}) \cup {next[k] : k \in 1..Len(next)}
    /\ trace' = trace \o <<EvData(res, c, data)>>
                      \o [k \in 1..Len(next) |-> Ev("call", next[k])]

Settle(c, res, next) == SettleData(c, res, <<>>, next)

\* mutant of Throw: the error is reported but process.exit(1) is missing, so
\* the process ends with status 0
ThrowWithoutExit(message) ==
    /\ pc' = "done"
    /\ exitCode' = 0
    /\ reported' = message

\* the catch block of the action: spinner.fail(...), process.exit(1)
Throw(message) ==
    /\ pc' = "done"
    /\ exitCode' = 1
    /\ reported' = message

\* the end of the try block: spinner.succeed(...), the process ends normally
Succeed ==
    /\ pc' = "done"
    /\ exitCode' = 0
    /\ reported' = <<>>

Continue(at) ==
    /\ pc' = at
    /\ UNCHANGED <<exitCode, reported>>

\* error messages
DirExistsError == <<"Directory ", projectName, " already exists">>
CommandFailed == <<"Command failed">>
ConnectionError == <<"Connection error">>
ParseErrorPrefix == "Failed to parse project requirements"
ReferenceError == <<"cleanContent is not defined">>
NotIterable == <<"projectPlan.components is not iterable">>
PathArgError == <<"The path argument must be of type string">>
IOError == <<"EIO">>
NoEntry == <<"ENOENT">>

(***************************************************************************)
(* The file system.                                                        *)
(***************************************************************************)
\* mutant of WriteTo: an existing file is kept (flag wx without the error)
WriteToKeepExisting(fs, p, data) ==
    [q \in (DOMAIN fs) \cup {p} |-> IF q \in DOMAIN fs THEN fs[q] ELSE data]

\* files with path p holding data (created or overwritten)
WriteTo(fs, p, data) ==
    [q \in (DOMAIN fs) \cup {p} |-> IF q = p THEN data ELSE fs[q]]

\* fs.writeFile can succeed only below an existing directory and not onto one
Writable(p) == Parent(p) \in dirs /\ p \notin dirs

\* what the scaffolding command may lay down that the later stages touch:
\* the project directory alone, or also public/ and styles/ with a file each
ScaffoldLayouts ==
    { [dirs |-> {projectPath}, files |-> <<>>],
      [dirs |-> {projectPath, projectPath \o <<"public">>,
                 projectPath \o <<"styles">>},
       files |-> (projectPath \o <<"styles", "globals.css">>
                    :> <<"css">>) ] }

\* the project directory as a user may have left it: a licence file only,
\* which the scaffolding command tolerates
LeftOver == (projectPath \o <<"LICENSE">>) :> <<"MIT">>

NoFiles == [q \in {} |-> <<>>]

(***************************************************************************)
(* The run.                                                                *)
(***************************************************************************)
Init ==
    /\ variant \in {"A", "B"}
    /\ pc = "start"
    /\ \/ dirs = {} /\ files = NoFiles
       \/ dirs = {projectPath} /\ files = LeftOver
    /\ projectPlan = NoPlan
    /\ dirIdx = 0
    /\ compIdx = 0
    /\ content = <<>>
    /\ cleanContent = <<>>
    /\ completion = <<>>
    /\ stderr = <<>>
    /\ reported = <<>>
    /\ exitCode = -1
    /\ inflight = {}
    /\ trace = <<>>
    /\ fsAtStart = [dirs |-> dirs, files |-> files]
    /\ fsAfterScaffold = [dirs |-> {}, files |-> NoFiles]

\* fs.existsSync(projectPath), checked by variant A only (index.js 32)
ExistsCheck == variant = "A" /\ projectPath \in dirs

\* the action callback up to execSync
Start ==
    /\ pc = "start"
    /\ IF ExistsCheck
       THEN /\ Throw(DirExistsError)
            /\ UNCHANGED <<inflight, trace>>
       ELSE /\ Continue("scaffold")
            /\ inflight' = inflight \cup {ScaffoldCall}
            /\ trace' = Append(trace, Ev("call", ScaffoldCall))
    /\ UNCHANGED <<fsAtStart, fsAfterScaffold, variant,
                   dirs, files, projectPlan, dirIdx, compIdx,
                   content, cleanContent, completion, stderr>>

\* execSync returns or throws; on return analyzeProject sends its request
ScaffoldReturns ==
    /\ pc = "scaffold"
    /\ \/ /\ Settle(ScaffoldCall, "fail", <<>>)
          /\ Throw(CommandFailed)
          /\ UNCHANGED <<dirs, files, fsAfterScaffold>>
       \/ \E lay \in ScaffoldLayouts :
             /\ dirs' = dirs \cup lay.dirs
             /\ files' = [q \in (DOMAIN files) \cup (DOMAIN lay.files) |->
                            IF q \in DOMAIN lay.files THEN lay.files[q]
                            ELSE files[q]]
             /\ fsAfterScaffold' = [dirs |-> dirs', files |-> files']
             /\ Settle(ScaffoldCall, "ok", <<PlanRequest>>)
             /\ Continue("plan")
    /\ UNCHANGED <<fsAtStart, variant, projectPlan, dirIdx, compIdx, content,
                   cleanContent, completion, stderr>>

\* the start of generateComponents: for (const component of
\* projectPlan.components) throws on a missing array, ends the run on an
\* empty one, and otherwise sends the first component's request
FirstComponentCalls ==
    IF projectPlan.hasComponents /\ projectPlan.components # <<>>
    THEN <<ComponentRequest(1)>>
    ELSE <<>>

EnterGenerateComponents ==
    /\ compIdx' = IF FirstComponentCalls # <<>> THEN 1 ELSE compIdx
    /\ IF ~projectPlan.hasComponents THEN Throw(NotIterable)
       ELSE IF projectPlan.components = <<>> THEN Succeed
       ELSE Continue("comp_req")

\* the planner's completion request settles: strip, parse, and on success
\* createProjectStructure awaits its first ensureDir
PlannerReturns ==
    /\ pc = "plan"
    /\ \/ /\ Settle(PlanRequest, "fail", <<>>)
          /\ Throw(ConnectionError)
          /\ UNCHANGED <<projectPlan, dirIdx, content, cleanContent, stderr>>
       \/ \E text \in PlannerResponses :
             /\ content' = text
             /\ cleanContent' = StripPlanner(text)
             /\ IF JSONValid(cleanContent')
                THEN /\ projectPlan' = JSONParse(cleanContent')
                     /\ dirIdx' = 1
                     /\ SettleData(PlanRequest, "ok", text,
                                   <<EnsureDirCall(1)>>)
                     /\ Continue("mkdirs")
                     /\ UNCHANGED stderr
                ELSE /\ SettleData(PlanRequest, "ok", text, <<>>)
                     /\ UNCHANGED <<projectPlan, dirIdx>>
                     /\ IF variant = "A"
                        THEN \* index.js 110-113
                             /\ stderr' = Append(stderr, cleanContent')
                             /\ Throw(<<ParseErrorPrefix, ": ",
                                        "SyntaxError">>)
                        ELSE \* part_000 97-103: cleanContent is declared
                             \* inside the try block, so evaluating the
                             \* arguments of console.error throws
                             /\ UNCHANGED stderr
                             /\ Throw(ReferenceError)
    /\ UNCHANGED <<fsAtStart, fsAfterScaffold, variant,
                   dirs, files, compIdx, completion>>

\* mutant of TypesStepDue: >= written for >
TypesStepDueOffByOne == variant = "B" /\ Len(projectPlan.dataStructures) >= 0

\* part_000 126: projectPlan.dataStructures?.length > 0
TypesStepDue == variant = "B" /\ Len(projectPlan.dataStructures) > 0

\* what runs when the last ensureDir has settled
AfterDirectories ==
    IF TypesStepDue
    THEN /\ Settle(EnsureDirCall(dirIdx), "ok", <<TypesRequest>>)
         /\ Continue("types_req")
         /\ UNCHANGED compIdx
    ELSE /\ Settle(EnsureDirCall(dirIdx), "ok", FirstComponentCalls)
         /\ EnterGenerateComponents

\* fs.ensureDir creates the directory and the missing ones above it, and
\* fails when a file is in the way
EnsureDirBlocked(p) == \E a \in Ancestors(p) : a \in DOMAIN files

\* one awaited fs.ensureDir of the loop settles
EnsureDirReturns ==
    /\ pc = "mkdirs"
    /\ LET target == PathJoin(projectPath \o directories[dirIdx])
       IN  \/ /\ Settle(EnsureDirCall(dirIdx), "fail", <<>>)
              /\ Throw(IOError)
              /\ UNCHANGED <<dirs, dirIdx, compIdx>>
           \/ /\ ~EnsureDirBlocked(target)
              /\ dirs' = dirs \cup Ancestors(target)
              /\ IF dirIdx < Len(directories)
                 THEN /\ dirIdx' = dirIdx + 1
                      /\ Settle(EnsureDirCall(dirIdx), "ok",
                                <<EnsureDirCall(dirIdx + 1)>>)
                      /\ Continue("mkdirs")
                      /\ UNCHANGED compIdx
                 ELSE /\ UNCHANGED dirIdx
                      /\ AfterDirectories
    /\ UNCHANGED <<fsAtStart, fsAfterScaffold, variant,
                   files, projectPlan, content, cleanContent,
                   completion, stderr>>

\* generateTypeDefinitions: the completion request settles
TypesReturns ==
    /\ pc = "types_req"
    /\ \/ /\ Settle(TypesRequest, "fail", <<>>)
          /\ Throw(ConnectionError)
          /\ UNCHANGED completion
       \/ \E text \in TypeResponses :
             /\ completion' = text
             /\ SettleData(TypesRequest, "ok", text, <<TypesWrite>>)
             /\ Continue("types_write")
    /\ UNCHANGED <<fsAtStart, fsAfterScaffold, variant,
                   dirs, files, projectPlan, dirIdx, compIdx,
                   content, cleanContent, stderr>>

\* generateTypeDefinitions: the write of types/index.ts settles, the action
\* goes on to generateComponents
TypesWritten ==
    /\ pc = "types_write"
    /\ \/ /\ Settle(TypesWrite, "fail", <<>>)
          /\ Throw(IF Writable(typesPath) THEN IOError ELSE NoEntry)
          /\ UNCHANGED <<files, compIdx>>
       \/ /\ Writable(typesPath)
          /\ files' = WriteTo(files, typesPath, completion)
          /\ Settle(TypesWrite, "ok", FirstComponentCalls)
          /\ EnterGenerateComponents
    /\ UNCHANGED <<fsAtStart, fsAfterScaffold, variant,
                   dirs, projectPlan, dirIdx, content,
                   cleanContent, completion, stderr>>

\* mutant of CallsOnCompletion: the write is not awaited, the loop goes on
\* to the next request while the write is outstanding
CallsOnCompletionNoAwait(i) ==
    IF i < Len(projectPlan.components)
    THEN <<ComponentWrite(i), ComponentRequest(i + 1)>>
    ELSE <<ComponentWrite(i)>>

\* what the loop body issues once the completion for component i is there
CallsOnCompletion(i) == <<ComponentWrite(i)>>

\* what the loop issues once the file of component i is written
CallsOnWritten(i) ==
    IF i < Len(projectPlan.components) THEN <<ComponentRequest(i + 1)>>
    ELSE <<>>

\* generateComponents: the completion request for component compIdx settles
ComponentReturns ==
    /\ pc = "comp_req"
    /\ \/ /\ Settle(ComponentRequest(compIdx), "fail", <<>>)
          /\ Throw(ConnectionError)
          /\ UNCHANGED completion
       \/ \E text \in ComponentResponses :
             /\ completion' = text
             /\ IF getComponentDirectory(
                       projectPlan.components[compIdx].type).isString
                THEN /\ SettleData(ComponentRequest(compIdx), "ok", text,
                                   CallsOnCompletion(compIdx))
                     /\ Continue("comp_write")
                ELSE \* path.join rejects an argument that is no string
                     /\ SettleData(ComponentRequest(compIdx), "ok", text,
                                   <<>>)
                     /\ Throw(PathArgError)
    /\ UNCHANGED <<fsAtStart, fsAfterScaffold, variant,
                   dirs, files, projectPlan, dirIdx, compIdx,
                   content, cleanContent, stderr>>

\* generateComponents: the write of component compIdx settles
ComponentWritten ==
    /\ pc = "comp_write"
    /\ LET c == projectPlan.components[compIdx]
       IN  \/ /\ Settle(ComponentWrite(compIdx), "fail", <<>>)
              /\ Throw(IF Writable(componentPath(c)) THEN IOError
                       ELSE NoEntry)
              /\ UNCHANGED <<files, compIdx>>
           \/ /\ Writable(componentPath(c))
              /\ files' = WriteTo(files, componentPath(c),
                                  componentCodeOf(variant, completion))
              /\ Settle(ComponentWrite(compIdx), "ok",
                        CallsOnWritten(compIdx))
              /\ IF compIdx < Len(projectPlan.components)
                 THEN /\ compIdx' = compIdx + 1
                      /\ Continue("comp_req")
                 ELSE /\ UNCHANGED compIdx
                      /\ Succeed
    /\ UNCHANGED <<fsAtStart, fsAfterScaffold, variant,
                   dirs, projectPlan, dirIdx, content,
                   cleanContent, completion, stderr>>

Next ==
    \/ Start
    \/ ScaffoldReturns
    \/ PlannerReturns
    \/ EnsureDirReturns
    \/ TypesReturns
    \/ TypesWritten
    \/ ComponentReturns
    \/ ComponentWritten

Spec == Init /\ [][Next]_vars

(***************************************************************************)
(* Reading the history.                                                    *)
(***************************************************************************)
\* positions of the history entry (ev, c)
Positions(ev, c) ==
    {k \in 1..Len(trace) :
        /\ trace[k].ev = ev
        /\ trace[k].op = c.op
        /\ trace[k].target = c.target
        /\ trace[k].i = c.i}

Issued(c) == Positions("call", c) # {}
Done(c) == Positions("ok", c) # {}
Failed(c) == Positions("fail", c) # {}

IsCallEvent(e) == e.ev = "call"

\* the calls issued so far, in order
CallsIssued ==
    LET cs == SelectSeq(trace, IsCallEvent)
    IN  [k \in 1..Len(cs) |-> Call(cs[k].op, cs[k].target, cs[k].i)]

IsPrefix(s, t) == Len(s) <= Len(t) /\ \A k \in 1..Len(s) : s[k] = t[k]

\* the text the endpoint returned for component i
Returned(i) ==
    trace[CHOOSE k \in Positions("ok", ComponentRequest(i)) : TRUE].data

PlanKnown == projectPlan # NoPlan

NumComponents == Len(projectPlan.components)

\* the planner's response did not parse
ParseFailed == content # <<>> /\ ~JSONValid(cleanContent)

\* some step of the run failed: a call settled with an error, or the code
\* between two calls threw
SomethingFailed ==
    \/ \E k \in 1..Len(trace) : trace[k].ev = "fail"
    \/ reported # <<>>

\* every stage of the variant ran to its end
AllStagesCompleted ==
    /\ Done(ScaffoldCall)
    /\ Done(PlanRequest)
    /\ PlanKnown
    /\ \A i \in 1..Len(directories) : Done(EnsureDirCall(i))
    /\ (variant = "B" /\ projectPlan.dataStructures # <<>>)
          => Done(TypesRequest) /\ Done(TypesWrite)
    /\ projectPlan.hasComponents
    /\ \A i \in 1..NumComponents :
          Done(ComponentRequest(i)) /\ Done(ComponentWrite(i))

(***************************************************************************)
(* C1.  A failure of any stage is terminal: the failed call is the last    *)
(* thing the run did, nothing is in flight, no step is possible any more   *)
(* and the exit status is 1; the exit status is 0 only if every stage      *)
(* completed without a failure; a planner response that does not parse is  *)
(* never followed by a directory creation or a component request.          *)
(***************************************************************************)
C1_FailureIsTerminal ==
    /\ \A k \in 1..Len(trace) :
          trace[k].ev = "fail" => k = Len(trace)
    /\ SomethingFailed =>
          /\ exitCode = 1
          /\ pc = "done"
          /\ inflight = {}
          /\ ~ENABLED Next
    /\ exitCode = 1 => SomethingFailed /\ reported # <<>>
    /\ exitCode = 0 => ~SomethingFailed /\ AllStagesCompleted /\ pc = "done"
    /\ ParseFailed =>
          /\ exitCode = 1
          /\ \A k \in 1..Len(trace) :
                trace[k].op \notin {"ensureDir", "writeFile"}
                /\ trace[k].target # "component"
          /\ dirs = fsAfterScaffold.dirs
          /\ files = fsAfterScaffold.files

\* a run that the planner's unparsable answer ended
C1_Witness ==
    /\ ParseFailed
    /\ exitCode = 1
    /\ Done(ScaffoldCall)

(***************************************************************************)
(* C2.  The stages run in a fixed linear order, each call issued only      *)
(* when the one before it has settled successfully, none issued twice.     *)
(***************************************************************************)
DirectoryCalls == [i \in 1..Len(directories) |-> EnsureDirCall(i)]

\* request 1, write 1, request 2, write 2, ...
ComponentCalls ==
    [k \in 1..(2 * NumComponents) |->
        IF k % 2 = 1 THEN ComponentRequest((k + 1) \div 2)
        ELSE ComponentWrite(k \div 2)]

TypesCalls ==
    IF variant = "B" /\ projectPlan.dataStructures # <<>>
    THEN <<TypesRequest, TypesWrite>>
    ELSE <<>>

\* every call is issued right after the previous one settled with success,
\* and settles right after it was issued
OneAfterTheOther ==
    \A k \in 1..Len(trace) :
        IF trace[k].ev = "call"
        THEN k = 1 \/ trace[k - 1].ev = "ok"
        ELSE /\ k > 1
             /\ trace[k - 1] = [trace[k] EXCEPT !.ev = "call", !.data = <<>>]

\* the order the specification states: the type definitions come last
OrderTypesLast ==
    <<ScaffoldCall, PlanRequest>> \o DirectoryCalls \o ComponentCalls
        \o TypesCalls

\* the order of the code: the type definitions are produced inside
\* createProjectStructure, before generateComponents is called
OrderTypesInBuilder ==
    <<ScaffoldCall, PlanRequest>> \o DirectoryCalls \o TypesCalls
        \o ComponentCalls

FollowsOrder(order) ==
    /\ OneAfterTheOther
    /\ IF PlanKnown
       THEN /\ IsPrefix(CallsIssued, order)
            /\ exitCode = 0 => CallsIssued = order
       ELSE IsPrefix(CallsIssued, <<ScaffoldCall, PlanRequest>>)

\* C2 as claimed: Scaffold, Plan, Mkdirs, Synthesize-components and then the
\* type definitions, which are requested and written only after every
\* component file has been written
C2_OrderAsClaimed == FollowsOrder(OrderTypesLast)

\* C2 as amended: Scaffold, Plan, Mkdirs, then (variant B, non-empty
\* dataStructures) the type-definition request and the write of
\* types/index.ts, and only then the component requests and writes
C2_OrderTypesBeforeComponents == FollowsOrder(OrderTypesInBuilder)

\* a complete run of variant B with type definitions and two components
C2_Witness ==
    /\ exitCode = 0
    /\ variant = "B"
    /\ Done(TypesWrite)
    /\ NumComponents >= 2
    /\ Done(ComponentWrite(NumComponents))

(***************************************************************************)
(* C3.  What a successful run leaves under components/.                    *)
(***************************************************************************)
ComponentsDir == projectPath \o <<"components">>

IsUnder(p, d) == Len(p) > Len(d) /\ SubSeq(p, 1, Len(d)) = d

\* the files below <project>/components
ComponentFiles == {p \in DOMAIN files : IsUnder(p, ComponentsDir)}

PlannedPaths ==
    {componentPath(projectPlan.components[i]) : i \in 1..NumComponents}

DistinctNames ==
    \A i, j \in 1..NumComponents :
        i # j => projectPlan.components[i].name # projectPlan.components[j].name

DistinctPaths ==
    \A i, j \in 1..NumComponents :
        i # j => componentPath(projectPlan.components[i])
                    # componentPath(projectPlan.components[j])

\* the text the specification of a variant puts in the file of a component
\* whose completion text is s: variant A strips the fence and trims,
\* variant B writes the text as returned
ExpectedCode(s) ==
    IF variant = "A" THEN Trim(ReplaceComponentFence(s, 1)) ELSE s

\* C3 as claimed: after a successful run on a plan with pairwise distinct
\* component names there is exactly one file per component under
\* components/, and each holds exactly the text the endpoint returned
C3_ExactTextAsClaimed ==
    (exitCode = 0 /\ DistinctNames) =>
        /\ ComponentFiles = PlannedPaths
        /\ Cardinality(ComponentFiles) = NumComponents
        /\ \A i \in 1..NumComponents :
              files[componentPath(projectPlan.components[i])] = Returned(i)

\* C3 as amended: after a successful run on a plan whose components have
\* pairwise distinct output paths, all below components/, the files below
\* components/ are exactly those paths, one per component, and each holds
\* the text returned for its component, fence-stripped and trimmed in
\* variant A and verbatim in variant B
C3_OneFilePerPath ==
    (exitCode = 0 /\ DistinctPaths) =>
        /\ ComponentFiles = PlannedPaths
        /\ Cardinality(ComponentFiles) = NumComponents
        /\ \A i \in 1..NumComponents :
              files[componentPath(projectPlan.components[i])]
                 = ExpectedCode(Returned(i))

\* a successful run of variant A on Hero/section and Pricing/feature in
\* which a completion came fenced
C3_Witness ==
    /\ exitCode = 0
    /\ variant = "A"
    /\ NumComponents = 2
    /\ DistinctPaths
    /\ projectPlan.components[1] = [name |-> <<"Hero">>, type |-> "section"]
    /\ projectPlan.components[2] = [name |-> <<"Pricing">>, type |-> "feature"]
    /\ Returned(2) # files[componentPath(projectPlan.components[2])]

(***************************************************************************)
(* C4.  Where the file of a component goes.                                *)
(***************************************************************************)
\* the sub-directory the specification gives for a type
ClaimedDirectory(type) ==
    IF type = "section" THEN "sections"
    ELSE IF type = "layout" THEN "layout"
    ELSE IF type = "feature" THEN "features"
    ELSE IF type = "ui" THEN "ui"
    ELSE ""

ClaimedPath(c) ==
    PathJoin(projectPath \o <<"components", ClaimedDirectory(c.type)>>
             \o FileName(c.name))

\* C4 as claimed: for every component whose completion arrived, the file
\* is written to components/<subdir>/<name>.tsx, with subdir taken from the
\* four-entry table and empty for every other type (a missing type, the
\* empty string, a built-in property name), and the write is not prevented
\* by the type
C4_PathByTypeTable ==
    \A i \in 1..NumComponents :
        Done(ComponentRequest(i)) =>
            /\ Issued(ComponentWrite(i))
            /\ reported # PathArgError
            /\ Done(ComponentWrite(i)) =>
                  ClaimedPath(projectPlan.components[i]) \in DOMAIN files

(***************************************************************************)
(* C5.  Two components with the same name and type share a file; the last  *)
(* one in plan order wins.                                                 *)
(***************************************************************************)
\* component i is the last one of the plan written to its path
LastAtPath(i) ==
    \A j \in (i + 1)..NumComponents :
        componentPath(projectPlan.components[j])
            # componentPath(projectPlan.components[i])

\* C5: in a successful run every component, colliding or not, got its own
\* completion request and its own write, and every file holds the output of
\* the last component of the plan that maps to it
C5_LastWriteWins ==
    exitCode = 0 =>
        \A i \in 1..NumComponents :
            /\ Cardinality(Positions("ok", ComponentRequest(i))) = 1
            /\ Cardinality(Positions("ok", ComponentWrite(i))) = 1
            /\ LastAtPath(i) =>
                  files[componentPath(projectPlan.components[i])]
                     = ExpectedCode(Returned(i))

\* a successful run on a plan that names the same component twice, with two
\* different completions: the file holds the second, the first is lost
C5_Witness ==
    /\ exitCode = 0
    /\ NumComponents >= 2
    /\ projectPlan.components[1] = projectPlan.components[2]
    /\ ExpectedCode(Returned(1)) # ExpectedCode(Returned(2))
    /\ LastAtPath(2)
    /\ files[componentPath(projectPlan.components[2])]
          = ExpectedCode(Returned(2))

(***************************************************************************)
(* C7.  The directory builder.                                             *)
(***************************************************************************)
\* the ten sub-directories the specification lists
TenDirectories ==
    { projectPath \o d :
        d \in { <<"components">>, <<"components", "ui">>,
                <<"components", "sections">>, <<"components", "layout">>,
                <<"components", "features">>, <<"lib">>, <<"types">>,
                <<"hooks">>, <<"styles">>, <<"public", "images">> } }

\* the ensureDir loop of createProjectStructure has run to its end
DirectoriesBuilt == Done(EnsureDirCall(Len(directories)))

\* the loop is running or has run
BuilderEntered == Issued(EnsureDirCall(1))

\* what existed when the builder was entered is still there, unchanged
ExistingKept ==
    /\ fsAfterScaffold.dirs \subseteq dirs
    /\ \A p \in DOMAIN fsAfterScaffold.files :
          p \in DOMAIN files /\ files[p] = fsAfterScaffold.files[p]

\* the directories the builder has created
CreatedByBuilder == dirs \ fsAfterScaffold.dirs

\* C7 as claimed: the builder creates the ten listed directories and no
\* other, succeeds when some of them exist already and leaves what exists
\* unchanged
C7_ExactlyTenAsClaimed ==
    /\ BuilderEntered =>
          /\ ExistingKept
          /\ CreatedByBuilder \subseteq TenDirectories
    /\ DirectoriesBuilt => TenDirectories \subseteq dirs

\* C7 as amended: the builder makes the ten listed directories exist and
\* creates no other directory except public, the parent of public/images,
\* when the scaffold has not laid it down; it creates no file in doing so,
\* succeeds when some of the ten exist already and leaves every existing
\* directory and file unchanged
C7_TenAndMissingParent ==
    /\ BuilderEntered =>
          /\ ExistingKept
          /\ CreatedByBuilder
                \subseteq TenDirectories \cup {projectPath \o <<"public">>}
    /\ pc = "mkdirs" => files = fsAfterScaffold.files
    /\ DirectoriesBuilt =>
          /\ TenDirectories \subseteq dirs
          /\ (projectPath \o <<"public">>) \in dirs

\* the builder ran to its end in a project where styles/ and public/ were
\* there already, styles/ with a file in it
C7_Witness ==
    /\ DirectoriesBuilt
    /\ (projectPath \o <<"styles">>) \in fsAfterScaffold.dirs
    /\ (projectPath \o <<"styles", "globals.css">>) \in DOMAIN files
    /\ CreatedByBuilder # {}
    /\ CreatedByBuilder # TenDirectories

(***************************************************************************)
(* C8.  One external call at a time; one request per component, in plan    *)
(* order, never repeated.                                                  *)
(***************************************************************************)
\* the position of the only entry (ev, c) of the history
PositionOf(ev, c) == CHOOSE k \in Positions(ev, c) : TRUE

ComponentRequestsIssued ==
    {i \in 1..NumComponents : Issued(ComponentRequest(i))}

\* C8: at most one external call is outstanding; no call is issued twice;
\* the request for component i+1 is issued only after the file of component
\* i has been written; the requests are issued in plan order; a successful
\* run has issued exactly one request per component; a failed request is
\* the last call of the run
C8_OneRequestPerComponent ==
    /\ Cardinality(inflight) <= 1
    /\ Cardinality({CallsIssued[k] : k \in 1..Len(CallsIssued)})
          = Len(CallsIssued)
    /\ \A k \in 1..Len(trace) :
          (trace[k].ev = "call" /\ trace[k].target = "component")
             => trace[k].i \in 1..NumComponents
    /\ \A i \in ComponentRequestsIssued :
          i > 1 =>
             /\ Done(ComponentWrite(i - 1))
             /\ PositionOf("ok", ComponentWrite(i - 1))
                   < PositionOf("call", ComponentRequest(i))
    /\ exitCode = 0 =>
          Cardinality(ComponentRequestsIssued) = NumComponents
    /\ \A i \in 1..NumComponents :
          Failed(ComponentRequest(i)) =>
             /\ PositionOf("fail", ComponentRequest(i)) = Len(trace)
             /\ ComponentRequestsIssued = 1..i

\* a successful run on two components, and so with two requests
C8_Witness ==
    /\ exitCode = 0
    /\ NumComponents >= 2
    /\ ComponentRequestsIssued = 1..NumComponents

(***************************************************************************)
(* C9.  What the planner reports when its response does not parse.         *)
(***************************************************************************)
\* C9 as claimed: in both variants the cleaned text is echoed to the error
\* output and the error reported at the top level is the planner's
\* Failed to parse project requirements
C9_ParseFailureReported ==
    (ParseFailed /\ pc = "done") =>
        /\ stderr = <<cleanContent>>
        /\ reported # <<>>
        /\ Head(reported) = ParseErrorPrefix

(***************************************************************************)
(* C10.  A project directory that exists already.                          *)
(***************************************************************************)
\* C10 as claimed: when <project-name> exists at the start the tool makes
\* no external call at all, leaves the file system as it was and ends with
\* exit status 1
C10_ExistingDirectoryUntouched ==
    projectPath \in fsAtStart.dirs =>
        /\ trace = <<>>
        /\ inflight = {}
        /\ dirs = fsAtStart.dirs
        /\ files = fsAtStart.files
        /\ pc \in {"start", "done"}
        /\ pc = "done" => exitCode = 1

(***************************************************************************)
(* The fencing strip on its own: a response is drawn, then one of the two  *)
(* strips of the code is applied to it.                                    *)
(***************************************************************************)
TagTs == <<"t", "s">>

\* no tag, and the tags a model is seen to put on JSON and TypeScript code
StripTags == {<<>>, TagJson, TagJs, TagTs, TagTsx, TagTypescript}

\* bodies: trimmed text without a run of three backticks
StripBodies ==
    {b \in SeqsUpTo({"x", BackTick, "\n", " "}, MaxBodyLen) :
        /\ Trim(b) = b
        /\ \A k \in 1..Len(b) : ~MatchesAt(b, k, Fence3)}

StripInit ==
    /\ pc = "strip"
    /\ content \in StripBodies \cup
                   {Fenced(tag, b) : tag \in StripTags, b \in StripBodies}
    /\ cleanContent = <<>>
    /\ variant = "A"
    /\ dirs = {}
    /\ files = NoFiles
    /\ projectPlan = NoPlan
    /\ dirIdx = 0
    /\ compIdx = 0
    /\ completion = <<>>
    /\ stderr = <<>>
    /\ reported = <<>>
    /\ exitCode = -1
    /\ inflight = {}
    /\ trace = <<>>
    /\ fsAtStart = [dirs |-> {}, files |-> NoFiles]
    /\ fsAfterScaffold = [dirs |-> {}, files |-> NoFiles]

StripFrame ==
    UNCHANGED <<variant, dirs, files, projectPlan, dirIdx, compIdx, content,
                completion, stderr, reported, exitCode, inflight, trace,
                fsAtStart, fsAfterScaffold>>

\* index.js 106 and part_000 98
ApplyPlannerStrip ==
    /\ pc = "strip"
    /\ pc' = "planner"
    /\ cleanContent' = StripPlanner(content)
    /\ StripFrame

\* index.js 163
ApplyComponentStrip ==
    /\ pc = "strip"
    /\ pc' = "synthesizer"
    /\ cleanContent' = StripComponentA(content)
    /\ StripFrame

StripNext == ApplyPlannerStrip \/ ApplyComponentStrip

StripSpec == StripInit /\ [][StripNext]_vars

(***************************************************************************)
(* C6.  The fencing strip does not see the fence.                          *)
(***************************************************************************)
\* C6 as claimed: for every trimmed body without triple backticks and every
\* language tag, the strip of the fenced body is the strip of the body, for
\* the planner's strip and for the synthesizer's strip
C6_FenceTransparent ==
    \A tag \in StripTags, b \in StripBodies :
        content = Fenced(tag, b) =>
            /\ pc = "planner" => cleanContent = StripPlanner(b)
            /\ pc = "synthesizer" => cleanContent = StripComponentA(b)

\* C6 as amended: for every trimmed body without triple backticks, the
\* strip of the body fenced with no tag or with the tag the pattern of the
\* strip names (json for the planner; ts or tsx for the synthesizer of
\* variant A) is the body itself, as is the strip of the bare body
C6_KnownTagsTransparent ==
    \A b \in StripBodies :
        /\ \A tag \in {<<>>, TagJson} :
              (content = Fenced(tag, b) /\ pc = "planner")
                 => cleanContent = b /\ StripPlanner(b) = b
        /\ \A tag \in {<<>>, TagTs, TagTsx} :
              (content = Fenced(tag, b) /\ pc = "synthesizer")
                 => cleanContent = b /\ StripComponentA(b) = b

\* the planner's strip applied to a non-empty body in a json fence
C6_Witness ==
    /\ pc = "planner"
    /\ \E b \in StripBodies :
          /\ Len(b) = MaxBodyLen
          /\ content = Fenced(TagJson, b)
          /\ cleanContent = b
====
